---- MODULE Spec2Model ----
(***************************************************************************)
(* A model of the portfolio backend (main.py, schemas.py): the GitHub      *)
(* login callback with its three upserts, the session-token dependency     *)
(* get_current_user, GET /me and POST /portfolio, over the three document  *)
(* collections developer, session and portfolio.                           *)
(*                                                                         *)
(* github_auth_callback is a plain def: the framework runs it on a worker  *)
(* thread, so several logins run at once.  get_current_user, me and        *)
(* update_portfolio are async defs without an await: they run one at a     *)
(* time on the event loop, but their store calls interleave with the       *)
(* store calls of the login threads.                                       *)
(***************************************************************************)
EXTENDS Integers, Sequences, FiniteSets, TLC

(***************************************************************************)
(* Bounds of the model.                                                    *)
(***************************************************************************)
MaxLogins == 2      \* logins that get as far as the first store call
MaxSkew == 1        \* seconds the clock is followed for past one session
                    \* lifetime

(***************************************************************************)
(* Values.  An Optional value is <<>> (None) or <<v>>.  A document is a    *)
(* function from field names to values; a field the document lacks is not  *)
(* in its DOMAIN.                                                          *)
(***************************************************************************)
None == <<>>
Some(v) == <<v>>

Usernames == {"ada", "bob"}
LoginProcs == {"w1", "w2"}

SessionTTL == 60 * 60 * 24 * 7

\* time.time() at the first request served.
StartTime == 0

\* Header values that are no issued token: the empty string and a made-up one.
EmptyToken == -1
BogusToken == 0

(***************************************************************************)
(* schemas.py                                                              *)
(***************************************************************************)
DeveloperFields ==
    {"username", "name", "email", "avatar_url", "bio", "company", "location",
     "blog", "twitter_username", "html_url", "public_repos"}

PortfolioFields == {"username", "headline", "subheadline", "sections", "theme"}

\* Portfolio(username=u).model_dump(): the defaults of the schema.
PortfolioDefaults(u) ==
    [username |-> u,
     headline |-> "Building with code.",
     subheadline |-> "Developer portfolio powered by GitHub.",
     sections |-> <<>>,
     theme |-> "accent:#3b82f6"]

\* Session(token, user_id, expires_at).model_dump()
SessionDoc(token, u, expiry) ==
    [token |-> token, user_id |-> u, expires_at |-> expiry]

(***************************************************************************)
(* What the provider answers (inputs of the login).                        *)
(***************************************************************************)
GhFull(u) ==
    [login |-> Some(u), name |-> Some("Ada L"), avatar_url |-> Some("https://a/1"),
     bio |-> Some("bio"), company |-> Some("co"), location |-> Some("loc"),
     blog |-> Some("blog"), twitter_username |-> Some("tw"),
     html_url |-> Some("https://gh/u"), public_repos |-> Some(7)]

GhBare(u) ==
    [login |-> Some(u), name |-> None, avatar_url |-> None, bio |-> None,
     company |-> None, location |-> None, blog |-> None,
     twitter_username |-> None, html_url |-> None, public_repos |-> None]

GhError == [GhBare("x") EXCEPT !.login = None]

\* The answer of /user/emails: a list of entries, or an error object.
EmailsError == [isList |-> FALSE, items |-> <<>>]
EmailsList(items) == [isList |-> TRUE, items |-> items]

\* The answers of /user and /user/emails to one access token.
ProviderAnswers ==
    { [gh_user |-> GhFull("ada"),
       emails |-> EmailsList(<< [email |-> Some("e1"), primary |-> FALSE],
                                [email |-> Some("e2"), primary |-> TRUE] >>)],
      [gh_user |-> GhBare("ada"),
       emails |-> EmailsList(<< [email |-> Some("e2"), primary |-> FALSE] >>)],
      [gh_user |-> GhBare("ada"), emails |-> EmailsList(<<>>)],
      [gh_user |-> GhBare("bob"), emails |-> EmailsError],
      [gh_user |-> GhError, emails |-> EmailsError] }

\* No call to /user and /user/emails was made.
NoAnswer == [gh_user |-> GhError, emails |-> EmailsError]

\* The answer of the code exchange.
ExchangeResponses ==
    { [status |-> 200, access_token |-> Some("gho")],
      [status |-> 200, access_token |-> None],
      [status |-> 401, access_token |-> None] }

\* PortfolioUpdate payloads: an absent field is None.
Payloads ==
    { [headline |-> None, subheadline |-> None, sections |-> None, theme |-> None],
      [headline |-> Some("h1"), subheadline |-> None, sections |-> Some(<<>>), theme |-> None],
      [headline |-> None, subheadline |-> Some("s1"), sections |-> Some(<<"b1">>),
       theme |-> Some("dark")] }

NoPayload == [headline |-> None, subheadline |-> None, sections |-> None, theme |-> None]

(***************************************************************************)
(* The document store: find_one and update_one(..., upsert=True).          *)
(***************************************************************************)
\* The position of the first document of coll whose field key is val; 0 if none.
FindIndex(coll, key, val) ==
    LET hits == {i \in 1..Len(coll) : key \in DOMAIN coll[i] /\ coll[i][key] = val}
    IN IF hits = {} THEN 0 ELSE CHOOSE i \in hits : \A j \in hits : i <= j

\* find_one({key: val}): the first matching document, or None.
FindOne(coll, key, val) ==
    LET i == FindIndex(coll, key, val) IN IF i = 0 THEN None ELSE Some(coll[i])

\* $set: the fields of upd replace or extend those of doc.
SetFields(doc, upd) == upd @@ doc

\* An insert where an upsert was meant: a document is added on every call.
UpsertSetAlwaysInsert(coll, matched, key, val, upd) ==
    Append(coll, SetFields((key :> val), upd))

\* A $setOnInsert where a $set was meant: a matched document is left alone.
UpsertSetKeepExisting(coll, matched, key, val, upd) ==
    IF matched = 0
    THEN Append(coll, SetFields((key :> val), upd))
    ELSE coll

\* update_one(filter, {"$set": upd}, upsert=True), given the position the
\* query phase matched (0: nothing matched, so a document is inserted).
UpsertSet(coll, matched, key, val, upd) ==
    IF matched = 0
    THEN Append(coll, SetFields((key :> val), upd))
    ELSE [coll EXCEPT ![matched] = SetFields(@, upd)]

\* A $set where a $setOnInsert was meant: a matched document is overwritten.
UpsertSetOnInsertOverwrites(coll, matched, key, val, ins) ==
    IF matched = 0
    THEN Append(coll, SetFields((key :> val), ins))
    ELSE [coll EXCEPT ![matched] = SetFields(@, ins)]

\* upsert=True left out: nothing is inserted.
UpsertSetOnInsertNoUpsert(coll, matched, key, val, ins) == coll

\* update_one(filter, {"$setOnInsert": ins}, upsert=True)
UpsertSetOnInsert(coll, matched, key, val, ins) ==
    IF matched = 0
    THEN Append(coll, SetFields((key :> val), ins))
    ELSE coll

(***************************************************************************)
(* State.                                                                  *)
(***************************************************************************)
VARIABLES
    oauthConfigured,  \* GITHUB_CLIENT_ID and GITHUB_CLIENT_SECRET are set
    dbAvailable,      \* db is not None
    developer,        \* db["developer"], in insertion order
    session,          \* db["session"]
    portfolio,        \* db["portfolio"]
    now,              \* time.time()
    nextToken,        \* secrets.token_urlsafe(32) never repeats: the n-th login
                      \* to reach the store draws token n
    returned,         \* the tokens a login has handed to a client
    login,            \* per worker thread: the login it is running
    req,              \* the POST /portfolio the event loop is running
    resp              \* the response the last step sent, NoResp if it sent none

vars == <<oauthConfigured, dbAvailable, developer, session, portfolio, now,
          nextToken, returned, login, req, resp>>

config == <<oauthConfigured, dbAvailable>>
store == <<developer, session, portfolio>>

Response(handler, status, detail) ==
    [handler |-> handler, status |-> status, detail |-> detail,
     token |-> None, user |-> None, updated |-> None]

NoResp == Response("none", 0, "none")

IdleLogin ==
    [pc |-> "idle", serial |-> 0, dev |-> None, token |-> None, expiry |-> None,
     matched |-> 0]

IdleReq == [pc |-> "idle", username |-> None, payload |-> NoPayload, matched |-> 0]

\* A database an earlier deployment left behind: one user who logged in once.
SeedDeveloper == << [username |-> "ada"] @@ [k \in DeveloperFields \ {"username"} |-> None] >>
SeedSession == << SessionDoc(1, "ada", StartTime + SessionTTL) >>
SeedPortfolio == << PortfolioDefaults("ada") >>

Init ==
    /\ now = StartTime
    /\ login = [p \in LoginProcs |-> IdleLogin]
    /\ req = IdleReq
    /\ resp = NoResp
    /\ \/ \* a fresh deployment
          /\ oauthConfigured = TRUE /\ dbAvailable = TRUE
          /\ developer = <<>> /\ session = <<>> /\ portfolio = <<>>
          /\ nextToken = 1 /\ returned = {}
       \/ \* redeployed without the OAuth settings, over the earlier database
          /\ oauthConfigured = FALSE /\ dbAvailable = TRUE
          /\ developer = SeedDeveloper /\ session = SeedSession
          /\ portfolio = SeedPortfolio
          /\ nextToken = 2 /\ returned = {1}
       \/ \* no database configured
          /\ oauthConfigured = TRUE /\ dbAvailable = FALSE
          /\ developer = <<>> /\ session = <<>> /\ portfolio = <<>>
          /\ nextToken = 1 /\ returned = {}

(***************************************************************************)
(* github_auth_callback.  Each step of a login is one write to the store    *)
(* together with the local work and the query of the next update_one that  *)
(* follow it; the query and the write of one update_one are separate       *)
(* steps, as the store takes no lock between them and no collection has a  *)
(* unique index.                                                           *)
(***************************************************************************)
\* primary_email: the entry marked primary, else the first entry, else None.
PrimaryEmail(emails) ==
    IF ~emails.isList \/ emails.items = <<>>
    THEN None
    ELSE LET prim == {i \in 1..Len(emails.items) : emails.items[i].primary}
             e == IF prim = {}
                  THEN emails.items[1]
                  ELSE emails.items[CHOOSE i \in prim : \A j \in prim : i <= j]
         IN e.email

\* Developer(...).model_dump(): every field of the schema, None included.
NewDeveloper(gh, primary_email) ==
    [username |-> gh.login[1],
     name |-> gh.name,
     email |-> primary_email,
     avatar_url |-> gh.avatar_url,
     bio |-> gh.bio,
     company |-> gh.company,
     location |-> gh.location,
     blog |-> gh.blog,
     twitter_username |-> gh.twitter_username,
     html_url |-> gh.html_url,
     public_repos |-> gh.public_repos]

\* The callback without its check of the OAuth settings.
FetchErrorNoConfigCheck(ex, gh) ==
    IF ex.status # 200 THEN Response("login", 400, "Failed to exchange code")
    ELSE IF ex.access_token = None
    THEN Response("login", 400, "No access token from GitHub")
    ELSE IF gh.login = None THEN Response("login", 500, "Developer: username required")
    ELSE IF ~dbAvailable THEN Response("login", 500, "Database not available")
    ELSE NoResp

\* The callback up to its first store call: the error it raises, or NoResp.
FetchError(ex, gh) ==
    IF ~oauthConfigured THEN Response("login", 500, "GitHub OAuth not configured")
    ELSE IF ex.status # 200 THEN Response("login", 400, "Failed to exchange code")
    ELSE IF ex.access_token = None
    THEN Response("login", 400, "No access token from GitHub")
    ELSE IF gh.login = None THEN Response("login", 500, "Developer: username required")
    ELSE IF ~dbAvailable THEN Response("login", 500, "Database not available")
    ELSE NoResp

\* model_dump() leaves a set HttpUrl field a Url object, not a str.
HasUrlObject(dev) == dev.avatar_url # None \/ dev.html_url # None

\* The callback from its start to the query of the developer upsert.
LoginStart(p) ==
    /\ login[p].pc = "idle"
    /\ \E ex \in ExchangeResponses :
       \* the profile is fetched only with an access token
       \E ans \in IF ex.status = 200 /\ ex.access_token # None
                  THEN ProviderAnswers ELSE {NoAnswer} :
          LET gh == ans.gh_user
              em == ans.emails
              err == FetchError(ex, gh)
          IN
          IF err # NoResp
          THEN /\ resp' = err
               /\ UNCHANGED <<login, nextToken>>
          ELSE /\ nextToken <= MaxLogins
               /\ LET dev == NewDeveloper(gh, PrimaryEmail(em)) IN
                  login' = [login EXCEPT ![p] =
                      [IdleLogin EXCEPT !.pc = "dev_write",
                                        !.serial = nextToken,
                                        !.dev = Some(dev),
                                        !.matched =
                                            FindIndex(developer, "username", dev.username)]]
               /\ nextToken' = nextToken + 1
               /\ resp' = NoResp
    /\ UNCHANGED <<config, store, now, returned, req>>

\* The developer upsert fails in the driver: the document holds a value the
\* BSON encoder has no codec for.  Whether it has one depends on the codec
\* registry database.py builds, so a login with a Url may also go on.
LoginEncodeError(p) ==
    /\ login[p].pc = "dev_write"
    /\ HasUrlObject(login[p].dev[1])
    /\ login' = [login EXCEPT ![p] = IdleLogin]
    /\ resp' = Response("login", 500, "cannot encode object")
    /\ UNCHANGED <<config, store, now, nextToken, returned, req>>

\* An expiry of one day.
ExpiryOneDay(t) == t + 60 * 60 * 24

\* expiry = time.time() + 60 * 60 * 24 * 7
Expiry(t) == t + SessionTTL

\* The write of the developer upsert ($set of the whole dumped model); then
\* token, expiry and sess are made and the session upsert runs its query.
DevWrite(p) ==
    /\ login[p].pc = "dev_write"
    /\ developer' = UpsertSet(developer, login[p].matched, "username",
                              login[p].dev[1].username, login[p].dev[1])
    /\ login' = [login EXCEPT ![p].pc = "sess_write",
                              ![p].token = Some(login[p].serial),
                              ![p].expiry = Some(Expiry(now)),
                              ![p].matched =
                                  FindIndex(session, "user_id", login[p].dev[1].username)]
    /\ resp' = NoResp
    /\ UNCHANGED <<config, session, portfolio, now, nextToken, returned, req>>

\* The write of the session upsert; then the portfolio upsert runs its query.
SessWrite(p) ==
    /\ login[p].pc = "sess_write"
    /\ session' = UpsertSet(session, login[p].matched, "user_id",
                            login[p].dev[1].username,
                            SessionDoc(login[p].token[1], login[p].dev[1].username,
                                       login[p].expiry[1]))
    /\ login' = [login EXCEPT ![p].pc = "port_write",
                              ![p].matched =
                                  FindIndex(portfolio, "username", login[p].dev[1].username)]
    /\ resp' = NoResp
    /\ UNCHANGED <<config, developer, portfolio, now, nextToken, returned, req>>

\* The write of the portfolio upsert ($setOnInsert of the defaults), and the
\* redirect that hands the token to the client.
PortWrite(p) ==
    /\ login[p].pc = "port_write"
    /\ portfolio' = UpsertSetOnInsert(portfolio, login[p].matched, "username",
                                      login[p].dev[1].username,
                                      PortfolioDefaults(login[p].dev[1].username))
    /\ returned' = returned \cup {login[p].token[1]}
    /\ login' = [login EXCEPT ![p] = IdleLogin]
    /\ resp' = [Response("login", 200, "redirect_to") EXCEPT !.token = login[p].token]
    /\ UNCHANGED <<config, developer, session, now, nextToken, req>>

\* A login that stops takes its writes back: here, the whole store.
AfterAbortRollback(st) == << <<>>, <<>>, <<>> >>

\* What a login that stops leaves of the store: all of it (no handler undoes
\* an earlier write).
AfterAbort(st) == st

\* A store call raises (the server is unreachable, the call times out) or the
\* worker dies: the flow stops where it is.
LoginAbort(p) ==
    /\ login[p].pc \in {"dev_write", "sess_write", "port_write"}
    /\ login' = [login EXCEPT ![p] = IdleLogin]
    /\ developer' = AfterAbort(store)[1]
    /\ session' = AfterAbort(store)[2]
    /\ portfolio' = AfterAbort(store)[3]
    /\ resp' = Response("login", 500, "Internal Server Error")
    /\ UNCHANGED <<config, now, nextToken, returned, req>>

(***************************************************************************)
(* get_current_user, /me, POST /portfolio                                  *)
(***************************************************************************)
\* What a client can put in x-session-token: nothing, the empty string, a
\* made-up value, or a token some login handed out (a token_urlsafe(32)
\* value that was never handed out cannot be guessed).
ClientHeaders == {None} \cup {Some(t) : t \in returned \cup {EmptyToken, BogusToken}}

\* "if not token": the header is missing or empty.
MissingToken(header) == header = None \/ header = Some(EmptyToken)

\* A session that is expired from the instant of its expiry on.
ExpiredAtExpiry(sess, t) == sess.expires_at <= t

\* "sess.get('expires_at', 0) < time.time()"
Expired(sess, t) == sess.expires_at < t

(* The body of get_current_user over what it reads: the header, the clock,
   whether db is set, and the session and developer collections. *)
CurrentUser(header, t, db, sessions, developers) ==
    IF MissingToken(header) THEN Response("auth", 401, "Missing session token")
    ELSE IF ~db THEN Response("auth", 500, "Database not available")
    ELSE LET sess == FindOne(sessions, "token", header[1]) IN
         IF sess = None \/ Expired(sess[1], t)
         THEN Response("auth", 401, "Invalid or expired session token")
         ELSE LET user == FindOne(developers, "username", sess[1].user_id) IN
              IF user = None
              THEN Response("auth", 401, "User not found")
              ELSE [Response("auth", 200, "user") EXCEPT !.user = user]

\* get_current_user: the user it returns, or the error it raises.
GetCurrentUser(header, t) == CurrentUser(header, t, dbAvailable, session, developer)

\* GET /me
Me ==
    /\ req.pc = "idle"
    /\ \E header \in ClientHeaders :
          LET auth == GetCurrentUser(header, now) IN
          resp' = IF auth.status # 200
                  THEN auth
                  ELSE [Response("me", 200, "user") EXCEPT !.user = auth.user]
    /\ UNCHANGED <<config, store, now, nextToken, returned, login, req>>

\* "if v" where "if v is not None" was meant: an empty list is dropped too.
UpdateTruthy(payload) ==
    [k \in {f \in DOMAIN payload :
               payload[f] # None /\ ~(f = "sections" /\ payload[f] = Some(<<>>))}
        |-> payload[k][1]]

\* "update = {k: v for k, v in payload.model_dump().items() if v is not None}"
Update(payload) ==
    [k \in {f \in DOMAIN payload : payload[f] # None} |-> payload[k][1]]

\* POST /portfolio from its start to the query of its upsert.
UpdatePortfolio ==
    /\ req.pc = "idle"
    /\ \E header \in ClientHeaders :
       \* the payload is looked at only once the user is resolved
       \E payload \in IF GetCurrentUser(header, now).status = 200
                      THEN Payloads ELSE {NoPayload} :
          LET auth == GetCurrentUser(header, now) IN
          IF auth.status # 200
          THEN /\ resp' = auth
               /\ UNCHANGED req
          ELSE IF DOMAIN Update(payload) = {}
          THEN /\ resp' = [Response("update", 200, "updated") EXCEPT
                              !.updated = Some(FALSE)]
               /\ UNCHANGED req
          ELSE /\ req' = [pc |-> "port_write",
                          username |-> Some(auth.user[1].username),
                          payload |-> payload,
                          matched |-> FindIndex(portfolio, "username",
                                                auth.user[1].username)]
               /\ resp' = NoResp
    /\ UNCHANGED <<config, store, now, nextToken, returned, login>>

\* The write of the upsert of POST /portfolio: $set of the non-None fields.
PostWrite ==
    /\ req.pc = "port_write"
    /\ portfolio' = UpsertSet(portfolio, req.matched, "username",
                              req.username[1], Update(req.payload))
    /\ req' = IdleReq
    /\ resp' = [Response("update", 200, "updated") EXCEPT !.updated = Some(TRUE)]
    /\ UNCHANGED <<config, developer, session, now, nextToken, returned, login>>

(***************************************************************************)
(* The clock.                                                              *)
(***************************************************************************)
\* The instants the model's clock shows: the start, and one session lifetime
\* after it followed by up to MaxSkew seconds.
ClockValue(t) ==
    \/ t = StartTime
    \/ /\ t >= StartTime + SessionTTL
       /\ t <= StartTime + SessionTTL + MaxSkew

Tick ==
    /\ \E d \in {1, SessionTTL} :
          /\ ClockValue(now + d)
          /\ now' = now + d
    /\ resp' = NoResp
    /\ UNCHANGED <<config, store, nextToken, returned, login, req>>

(***************************************************************************)
(* Specifications.                                                         *)
(***************************************************************************)
LoginStep(p) ==
    \/ LoginStart(p)
    \/ LoginEncodeError(p)
    \/ DevWrite(p)
    \/ SessWrite(p)
    \/ PortWrite(p)
    \/ LoginAbort(p)

ReqStep == Me \/ UpdatePortfolio \/ PostWrite

Next == (\E p \in LoginProcs : LoginStep(p)) \/ ReqStep \/ Tick

\* Worker threads and the event loop interleave at every store call.
Spec == Init /\ [][Next]_vars

\* One request at a time: a request runs only while no other is in flight.
OthersIdle(p) ==
    /\ \A q \in LoginProcs \ {p} : login[q].pc = "idle"
    /\ req.pc = "idle"

LoginsIdle == \A q \in LoginProcs : login[q].pc = "idle"

SeqNext ==
    \/ \E p \in LoginProcs : OthersIdle(p) /\ LoginStep(p)
    \/ LoginsIdle /\ ReqStep
    \/ Tick

SeqSpec == Init /\ [][SeqNext]_vars

(***************************************************************************)
(* Properties.                                                             *)
(***************************************************************************)
\* The usernames with a document in a collection, and how many each has.
Keys(coll, key) == {coll[i][key] : i \in 1..Len(coll)}
Count(coll, key, val) == Cardinality({i \in 1..Len(coll) : coll[i][key] = val})

\* Every header value, handed out or not.
AllHeaders == {None} \cup {Some(t) : t \in EmptyToken..(nextToken - 1)}

Accepted(t) == GetCurrentUser(Some(t), now).status = 200
Rejected(t) == GetCurrentUser(Some(t), now).status = 401

\* The answer of get_current_user in the state a step leads to.
GetCurrentUserNext(header) ==
    CurrentUser(header, now', dbAvailable', session', developer')
AcceptedNext(t) == GetCurrentUserNext(Some(t)).status = 200
RejectedNext(t) == GetCurrentUserNext(Some(t)).status = 401

\* The step is the session write of login p.
IsSessWrite(p) == login[p].pc = "sess_write" /\ login'[p].pc = "port_write"
\* The step is the developer write of login p.
IsDevWrite(p) == login[p].pc = "dev_write" /\ login'[p].pc = "sess_write"
\* The step completes login p.
IsLoginDone(p) == login[p].pc = "port_write" /\ login'[p].pc = "idle" /\ resp'.status = 200
\* The step is the write of POST /portfolio.
IsPostWrite == req.pc = "port_write" /\ req'.pc = "idle"

SevenDays == 604800

(* C1: with requests served one at a time, a username never has two session
   documents; when a login of u writes its session, every other token that
   resolved to u is rejected with 401 and the new token is accepted (unless
   the clock already passed its expiry); and a handed-out token that is
   rejected with 401 is never accepted again. *)
C1_OneSessionReplaced ==
    /\ [](\A u \in Usernames : Count(session, "user_id", u) <= 1)
    /\ [][\A p \in LoginProcs :
            IsSessWrite(p) =>
              LET u == login[p].dev[1].username
                  new == login[p].token[1]
              IN /\ \A t \in 1..(nextToken - 1) :
                      (t # new /\ Accepted(t)
                         /\ GetCurrentUser(Some(t), now).user[1].username = u)
                        => RejectedNext(t)
                 /\ now <= login[p].expiry[1] =>
                      /\ AcceptedNext(new)
                      /\ GetCurrentUserNext(Some(new)).user[1].username = u
         ]_vars
    /\ [][\/ UNCHANGED <<dbAvailable, session, developer, now>>
          \/ \A t \in returned : Rejected(t) => RejectedNext(t)]_vars

\* A second login of ada replaced the session of her first: token 1 is
\* rejected before its expiry and token 2 is accepted.
C1_Witness ==
    /\ returned = {1, 2}
    /\ Len(session) = 1
    /\ session[1].user_id = "ada"
    /\ now = StartTime
    /\ Rejected(1)
    /\ Accepted(2)

\* The header names a stored session that has not expired.
ValidSession(h) ==
    /\ h # None
    /\ \E i \in 1..Len(session) :
          session[i].token = h[1] /\ session[i].expires_at >= now

\* The user a header resolves to is the developer of the header's session.
ResolvesToOwner(h, r) ==
    \E i \in 1..Len(session), j \in 1..Len(developer) :
        /\ session[i].token = h[1]
        /\ developer[j].username = session[i].user_id
        /\ r.user = Some(developer[j])

\* A step in which /me or POST /portfolio runs its body.
BodyRuns ==
    \/ resp'.handler \in {"me", "update"} /\ resp'.status = 200 /\ req.pc = "idle"
    \/ req.pc = "idle" /\ req'.pc = "port_write"

(* C2 as claimed: get_current_user returns a user exactly for a header that
   names a stored, unexpired session, the user is that session's developer,
   and in every other case the answer is 401 with no user. *)
C2_Original ==
    \A h \in AllHeaders :
        LET r == GetCurrentUser(h, now) IN
        IF ValidSession(h)
        THEN r.status = 200 /\ ResolvesToOwner(h, r)
        ELSE r.status = 401 /\ r.user = None

(* C2 amended: as claimed, except that a request with a non-empty header is
   answered 500 (and resolves no user) when the database is not available;
   /me and POST /portfolio run their body only in a step in which some header
   resolves to a user. *)
C2_Amended ==
    /\ [](\A h \in AllHeaders :
            LET r == GetCurrentUser(h, now) IN
            IF ValidSession(h)
            THEN r.status = 200 /\ ResolvesToOwner(h, r)
            ELSE /\ r.user = None
                 /\ IF ~dbAvailable /\ ~MissingToken(h)
                    THEN r.status = 500
                    ELSE r.status = 401)
    /\ [][BodyRuns =>
            \E h \in ClientHeaders :
                /\ ValidSession(h)
                /\ GetCurrentUser(h, now).status = 200
                /\ resp'.handler = "me" => resp'.user = GetCurrentUser(h, now).user
                /\ req'.pc = "port_write" =>
                       req'.username = Some(GetCurrentUser(h, now).user[1].username)
         ]_vars

\* /me answered with a user while an expired or replaced token is around.
C2_Witness ==
    /\ resp.handler = "me"
    /\ resp.status = 200
    /\ resp.user # None
    /\ \E t \in returned : Rejected(t)

(* C3: a login sets the expiry of its session to the clock plus 604800 when
   it makes the token; a session document changes only in the session write
   of a login of its username, which stores that expiry; and the token of a
   stored session is accepted exactly while the clock is not past the stored
   expiry. *)
C3_FixedExpiry ==
    /\ [][\A p \in LoginProcs :
            /\ IsDevWrite(p) => login'[p].expiry = Some(now + SevenDays)
            /\ IsSessWrite(p) =>
                 \E i \in 1..Len(session') :
                    /\ session'[i].token = login[p].token[1]
                    /\ session'[i].expires_at = login[p].expiry[1]
         ]_vars
    /\ [][\A i \in 1..Len(session) :
            /\ Len(session') >= Len(session)
            /\ session'[i] # session[i] =>
                 \E p \in LoginProcs :
                    IsSessWrite(p) /\ login[p].dev[1].username = session[i].user_id
         ]_vars
    /\ [](\A i \in 1..Len(session) :
            Accepted(session[i].token) <=> now <= session[i].expires_at)
    /\ [](\A i \in 1..Len(session) :
            ~Accepted(session[i].token) <=> Rejected(session[i].token))

\* /me is answered with a user at the very instant a session expires.
C3_Witness ==
    /\ oauthConfigured
    /\ resp.handler = "me"
    /\ resp.status = 200
    /\ Len(session) = 1
    /\ session[1].expires_at = now
    /\ now = StartTime + SevenDays

\* The step is a step of a login.
IsLoginStep == login' # login \/ resp'.handler = "login"

(* C4: with requests served one at a time, a portfolio document appears only
   in the last write of a login of a username that has none, and it holds
   the schema's defaults; no step of a login changes a portfolio document
   that exists; a username never has two portfolio documents. *)
C4_CreatedOnce ==
    /\ [](\A u \in Usernames : Count(portfolio, "username", u) <= 1)
    /\ [][/\ Len(portfolio') >= Len(portfolio)
          /\ Len(portfolio') > Len(portfolio) =>
               \E p \in LoginProcs :
                  LET u == login[p].dev[1].username IN
                  /\ login[p].pc = "port_write" /\ login'[p].pc = "idle"
                  /\ Count(portfolio, "username", u) = 0
                  /\ portfolio' =
                       Append(portfolio,
                              [username |-> u,
                               headline |-> "Building with code.",
                               subheadline |-> "Developer portfolio powered by GitHub.",
                               sections |-> <<>>,
                               theme |-> "accent:#3b82f6"])
          /\ IsLoginStep =>
               \A i \in 1..Len(portfolio) : portfolio'[i] = portfolio[i]
         ]_vars

\* ada's second login has just completed and her edited headline is in place.
C4_Witness ==
    /\ resp.handler = "login"
    /\ resp.token = Some(2)
    /\ returned = {1, 2}
    /\ Len(developer) = 1
    /\ Len(portfolio) = 1
    /\ portfolio[1].headline = "h1"
    /\ portfolio[1].theme = "accent:#3b82f6"

PatchFields == {"headline", "subheadline", "sections", "theme"}

(* C5: the write of POST /portfolio by user u changes one document, the
   portfolio of u: each field that is non-null in the payload takes the
   payload's value and every other field keeps its value; no other document
   of any collection changes; a payload whose fields are all null never
   reaches the store, and the answer updated=false comes with no change. *)
C5_MergePatch ==
    /\ [](req.pc = "port_write" => \E k \in PatchFields : req.payload[k] # None)
    /\ [](\A payload \in Payloads :
            (\A k \in PatchFields : payload[k] = None) <=> DOMAIN Update(payload) = {})
    /\ [][IsPostWrite =>
            LET u == req.username[1]
                i == FindIndex(portfolio, "username", u)
            IN /\ developer' = developer
               /\ session' = session
               /\ resp'.updated = Some(TRUE)
               /\ i # 0
               /\ Len(portfolio') = Len(portfolio)
               /\ \A j \in 1..Len(portfolio) : j # i => portfolio'[j] = portfolio[j]
               /\ DOMAIN portfolio'[i] = DOMAIN portfolio[i]
               /\ portfolio'[i].username = u
               /\ \A k \in PatchFields :
                     portfolio'[i][k] = IF req.payload[k] # None
                                        THEN req.payload[k][1]
                                        ELSE portfolio[i][k]
         ]_vars
    /\ [][(resp'.handler = "update" /\ resp'.updated # Some(TRUE)) =>
            (resp'.updated = Some(FALSE) /\ UNCHANGED <<store, req>>)]_vars
    /\ [][portfolio' # portfolio /\ ~IsLoginStep => IsPostWrite]_vars

\* bob's second patch set his headline and emptied his sections; the
\* subheadline and theme of his first patch are kept, and ada's portfolio is
\* as created.
C5_Witness ==
    /\ resp.handler = "update"
    /\ resp.updated = Some(TRUE)
    /\ Len(portfolio) = 2
    /\ \E i, j \in 1..2 :
          /\ portfolio[i].username = "bob"
          /\ portfolio[i].headline = "h1"
          /\ portfolio[i].subheadline = "s1"
          /\ portfolio[i].sections = <<>>
          /\ portfolio[i].theme = "dark"
          /\ portfolio[j] = PortfolioDefaults("ada")

\* The developer document that holds the values of one provider answer.
HoldsProfile(doc, ans) ==
    /\ DOMAIN doc = DeveloperFields
    /\ ans.gh_user.login = Some(doc.username)
    /\ \A k \in DeveloperFields \ {"username", "email"} : doc[k] = ans.gh_user[k]
    /\ LET items == ans.emails.items
           prim == {i \in 1..Len(items) : items[i].primary}
       IN doc.email = IF ~ans.emails.isList \/ items = <<>> THEN None
                      ELSE IF prim = {} THEN items[1].email
                      ELSE items[CHOOSE i \in prim : \A j \in prim : i <= j].email

(* C6: with requests served one at a time, the document a login carries to
   the store holds the values of one provider answer; when the login
   completes, the store has exactly one developer document of its username
   and it is that document; its developer write leaves the documents of
   other usernames as they were. *)
C6_DeveloperUpsert ==
    /\ [](\A p \in LoginProcs :
            login[p].pc # "idle" =>
               \E ans \in ProviderAnswers : HoldsProfile(login[p].dev[1], ans))
    /\ [][\A p \in LoginProcs :
            /\ IsLoginDone(p) =>
                 LET d == login[p].dev[1] IN
                 /\ Count(developer', "username", d.username) = 1
                 /\ FindOne(developer', "username", d.username) = Some(d)
            /\ IsDevWrite(p) =>
                 /\ FindOne(developer', "username", login[p].dev[1].username)
                       = Some(login[p].dev[1])
                 /\ \A i \in 1..Len(developer) :
                       developer[i].username # login[p].dev[1].username
                          => developer'[i] = developer[i]
         ]_vars
    /\ [][developer' # developer => \E p \in LoginProcs : IsDevWrite(p)]_vars

\* ada's second login has just completed with an empty email list: her one
\* document has a null email.
C6_Witness ==
    /\ resp.handler = "login"
    /\ resp.token = Some(2)
    /\ returned = {1, 2}
    /\ Len(developer) = 1
    /\ developer[1].username = "ada"
    /\ developer[1].email = None

(* C7 as claimed: in every reachable state, whatever the interleaving, no
   username has more than one developer, session or portfolio document. *)
C7_UniqueKeys ==
    \A u \in Usernames :
        /\ Count(developer, "username", u) <= 1
        /\ Count(session, "user_id", u) <= 1
        /\ Count(portfolio, "username", u) <= 1

Has(coll, key, u) == u \in Keys(coll, key)

(* C8: every step changes at most one of the three collections, and a login
   that stops midway leaves all three as they are at that moment. *)
C8_NoRollback ==
    /\ [][Cardinality({i \in 1..3 : store'[i] # store[i]}) <= 1]_vars
    /\ [][\A p \in LoginProcs :
            (login[p].pc # "idle" /\ login'[p].pc = "idle" /\ resp'.status # 200)
               => store' = store
         ]_vars

\* No login is running: ada has a developer document and no session, bob has
\* a developer document and a session and no portfolio.
C8_Witness ==
    /\ \A p \in LoginProcs : login[p].pc = "idle"
    /\ Has(developer, "username", "ada")
    /\ ~Has(session, "user_id", "ada")
    /\ Has(developer, "username", "bob")
    /\ Has(session, "user_id", "bob")
    /\ ~Has(portfolio, "username", "bob")

(* C9: in every reachable state the usernames with a portfolio are among
   those with a session, which are among those with a developer document; no
   header a client can send is answered 'User not found'; and every
   portfolio document has all the fields of the schema. *)
C9_Containment ==
    /\ Keys(portfolio, "username") \subseteq Keys(session, "user_id")
    /\ Keys(session, "user_id") \subseteq Keys(developer, "username")
    /\ \A h \in ClientHeaders : GetCurrentUser(h, now).detail # "User not found"
    /\ \A i \in 1..Len(portfolio) : DOMAIN portfolio[i] = PortfolioFields

\* POST /portfolio of ada is between its query and its write while a login
\* of bob has written his developer document and not yet his session.
C9_Witness ==
    /\ req.pc = "port_write"
    /\ req.username = Some("ada")
    /\ \E p \in LoginProcs :
          /\ login[p].pc = "sess_write"
          /\ login[p].dev[1].username = "bob"
    /\ Keys(developer, "username") = {"ada", "bob"}
    /\ Keys(session, "user_id") = {"ada"}

EarlyErrors ==
    {"GitHub OAuth not configured", "Failed to exchange code",
     "No access token from GitHub"}

(* C10: a login answered with one of the three early errors carries no token
   and leaves the three collections, and the answer to every header, as they
   were; the errors have the statuses 500, 400 and 400; and without the OAuth
   settings no login gets past the first of them. *)
C10_FailedLoginChangesNothing ==
    /\ [][resp'.handler = "login" /\ resp'.detail \in EarlyErrors =>
            /\ store' = store
            /\ login' = login
            /\ returned' = returned
            /\ resp'.token = None
            /\ resp'.status = IF resp'.detail = "GitHub OAuth not configured"
                              THEN 500 ELSE 400
            /\ \A h \in AllHeaders : GetCurrentUserNext(h) = GetCurrentUser(h, now)
         ]_vars
    /\ [][~oauthConfigured /\ IsLoginStep =>
            resp'.status = 500 /\ resp'.detail = "GitHub OAuth not configured"]_vars
    /\ [](~oauthConfigured => \A p \in LoginProcs : login[p].pc = "idle")

\* A code exchange has just failed and a token handed out earlier is accepted.
C10_Witness ==
    /\ resp.handler = "login"
    /\ resp.detail = "Failed to exchange code"
    /\ \E t \in returned : Accepted(t)

====
